---- MODULE Spec2Model ----
(***************************************************************************)
(* Model of the data-shaping helpers of httprunner/utils.py:               *)
(*   merge_variables, gen_cartesian_product, filter_dict, filter_list,     *)
(*   filter_tuple, filter_set.                                             *)
(*                                                                         *)
(* Python values are tagged pairs <<kind, payload>>: x[1] is the kind of   *)
(* x and x[2] its payload.  Mutable top-level containers live in a heap    *)
(* (a sequence of objects, an address is an index), so that object         *)
(* identity and in-place mutation can be stated.  Strings are sequences of *)
(* one-character strings so that str.strip() and str.lower() are computed, *)
(* not assumed.                                                            *)
(***************************************************************************)
EXTENDS Integers, Sequences, FiniteSets

VARIABLES
    heap,   \* the objects: heap[a] is the container at address a
    heap0,  \* the heap as the caller built it, before the call (history)
    pc,     \* "ready" before the call, "done" after it, "again" after a second one
    fn,     \* the function called
    args,   \* its arguments: references to heap objects, or values
    cond,   \* filter_condition
    ret,    \* what the last call returned, or TypeError
    prev    \* what the first call returned, once a second one was made

vars == <<heap, heap0, pc, fn, args, cond, ret, prev>>

\* ------------------------------------------------------------ bounds
\* Longest top-level container handed to a normalizer entry point.
MaxLen == 2
\* Most entries of a variables mapping handed to merge_variables.
MaxKeys == 2
\* Most dimensions handed to gen_cartesian_product.
MaxDims == 3
\* Most fragments in one dimension.
MaxDimLen == 2

\* ------------------------------------------------------------ values
NoneVal == <<"none", 0>>
Num(n) == <<"num", n>>
Bool(b) == <<"bool", b>>
Str(s) == <<"str", s>>
\* A value of a type outside int/float/complex/bool/str/dict/list/set/tuple/None
\* (bytes, an object, ...).
Other == <<"other", 0>>
List(s) == <<"list", s>>
Tuple(s) == <<"tuple", s>>
\* An ordered mapping: a sequence of <<key, value>> items with distinct keys.
Dict(items) == <<"dict", items>>
SetOf(S) == <<"set", S>>
\* A reference to the heap object at address a.
Ref(a) == <<"ref", a>>
\* The outcome of a call that ended in `raise TypeError(...)`.
TypeError == <<"TypeError", 0>>

Deref(h, x) == IF x[1] = "ref" THEN h[x[2]] ELSE x

\* ------------------------------------------------------------ str
Whitespace == {" "}

RECURSIVE lstrip(_)
lstrip(s) == IF s # <<>> /\ Head(s) \in Whitespace THEN lstrip(Tail(s)) ELSE s

RECURSIVE rstrip(_)
rstrip(s) ==
    IF s # <<>> /\ s[Len(s)] \in Whitespace THEN rstrip(SubSeq(s, 1, Len(s) - 1)) ELSE s

\* str.strip(): leading and trailing whitespace removed.
str_strip(s) == rstrip(lstrip(s))

lower_char(c) ==
    CASE c = "A" -> "a"
      [] c = "B" -> "b"
      [] c = "X" -> "x"
      [] c = "Y" -> "y"
      [] OTHER -> c

\* str.lower()
str_lower(s) == [i \in DOMAIN s |-> lower_char(s[i])]

\* value.strip().lower()
strip_lower(s) == str_lower(str_strip(s))

\* ------------------------------------------------------------ dict
dict_keys(items) == [i \in DOMAIN items |-> items[i][1]]

dict_has(items, key) == \E i \in DOMAIN items : items[i][1] = key

dict_get(items, key) == items[CHOOSE i \in DOMAIN items : items[i][1] = key][2]

\* An assigned key always goes last (delete, then insert).
dict_setitem_move_last(items, key, value) ==
    Append(SelectSeq(items, LAMBDA it : it[1] # key), <<key, value>>)

\* d[key] = value: an existing key keeps its position, a new key goes last.
dict_setitem(items, key, value) ==
    IF dict_has(items, key)
    THEN [i \in DOMAIN items |-> IF items[i][1] = key THEN <<key, value>> ELSE items[i]]
    ELSE Append(items, <<key, value>>)

\* d.update(other): d[key] = value for each item of other, in other's order.
RECURSIVE dict_update(_, _)
dict_update(items, other) ==
    IF other = <<>> THEN items
    ELSE dict_update(dict_setitem(items, other[1][1], other[1][2]), Tail(other))

\* copy.copy replaced by plain assignment: the "copy" is the object itself.
copy_alias(h, r) == [heap |-> h, ret |-> r]

\* copy.copy(obj): a new object with the same top-level content.
copy_copy(h, r) == [heap |-> Append(h, h[r[2]]), ret |-> Ref(Len(h) + 1)]

\* ------------------------------------------------------------ merge_variables
\* Only the "$key" form is recognised.
is_self_reference_dollar_only(key, value) ==
    value[1] = "str" /\ value[2] = <<"$">> \o key

\* f"${key}" == value or "${" + key + "}" == value
is_self_reference(key, value) ==
    \/ value[1] = "str" /\ value[2] = <<"$">> \o key
    \/ value[1] = "str" /\ value[2] = <<"$", "{">> \o key \o <<"}">>

\* The loop building step_new_variables from variables.items().
RECURSIVE step_new_variables(_)
step_new_variables(items) ==
    IF items = <<>> THEN <<>>
    ELSE LET n == Len(items)
             rest == step_new_variables(SubSeq(items, 1, n - 1))
             key == items[n][1]
             value == items[n][2]
         IN IF is_self_reference(key, value) THEN rest
            ELSE dict_setitem(rest, key, value)

\* merge_variables(variables, variables_to_be_overridden) on heap h; both
\* arguments are references to dict objects.  Yields the heap after the call
\* and the returned reference.
merge_variables(h, variables, variables_to_be_overridden) ==
    LET new == step_new_variables(h[variables[2]][2])
        h1 == Append(h, Dict(new))
        merged_variables == copy_copy(h1, variables_to_be_overridden)
        m == merged_variables.ret[2]
        h2 == [merged_variables.heap EXCEPT
                 ![m] = Dict(dict_update(merged_variables.heap[m][2], new))]
    IN [heap |-> h2, ret |-> merged_variables.ret]

\* ------------------------------------------------------------ gen_cartesian_product
\* The product with the first dimension varying fastest.
RECURSIVE itertools_product_first_fastest(_)
itertools_product_first_fastest(lists) ==
    IF lists = <<>> THEN << <<>> >>
    ELSE LET rest == itertools_product_first_fastest(Tail(lists))
             first == Head(lists)
             m == Len(first)
         IN [j \in 1..(m * Len(rest)) |->
               <<first[((j - 1) % m) + 1]>> \o rest[((j - 1) \div m) + 1]]

\* itertools.product(*lists): the tuples in nested-loop order, the last list
\* varying fastest; one empty tuple for no lists.
RECURSIVE itertools_product(_)
itertools_product(lists) ==
    IF lists = <<>> THEN << <<>> >>
    ELSE LET rest == itertools_product(Tail(lists))
             first == Head(lists)
             m == Len(rest)
         IN [j \in 1..(Len(first) * m) |->
               <<first[((j - 1) \div m) + 1]>> \o rest[((j - 1) % m) + 1]]

\* product_item_dict = {}; for item in product_item_tuple: product_item_dict.update(item)
RECURSIVE product_item_dict(_, _)
product_item_dict(h, product_item_tuple) ==
    IF product_item_tuple = <<>> THEN <<>>
    ELSE LET n == Len(product_item_tuple)
         IN dict_update(product_item_dict(h, SubSeq(product_item_tuple, 1, n - 1)),
                        h[product_item_tuple[n][2]][2])

\* gen_cartesian_product(*arguments) on heap h; arguments is a sequence of
\* references to list objects whose elements are references to dict objects.
gen_cartesian_product(h, arguments) ==
    IF arguments = <<>> THEN [heap |-> Append(h, List(<<>>)), ret |-> Ref(Len(h) + 1)]
    ELSE IF Len(arguments) = 1 THEN [heap |-> h, ret |-> arguments[1]]
    ELSE LET tuples == itertools_product([i \in DOMAIN arguments |-> h[arguments[i][2]][2]])
             base == Len(h) + 1
             product_list == List([j \in 1..Len(tuples) |-> Ref(base + j)])
             dicts == [j \in 1..Len(tuples) |-> Dict(product_item_dict(h, tuples[j]))]
         IN [heap |-> Append(h, product_list) \o dicts, ret |-> Ref(base)]

\* ------------------------------------------------------------ normalizers
IsNumber(x) == x[1] \in {"num", "bool"}

Raised(x) == x[1] = "TypeError"

\* The sentinel is compared with the raw string, before strip().lower().
filter_str_raw_compare(s, filter_condition) ==
    IF Str(s) = filter_condition THEN <<>> ELSE <<Str(strip_lower(s))>>

\* The str branch shared by the four loops:
\*   value = value.strip().lower(); if value == filter_condition: continue
\* Yields the elements the branch keeps: none, or the normalized string.
filter_str(s, filter_condition) ==
    LET value == Str(strip_lower(s))
    IN IF value = filter_condition THEN <<>> ELSE <<value>>

\* filter_dict: everything after `return data` is indented into the
\* `if data is None:` block, so it never runs; control reaches the end of the
\* function body, which returns None.
filter_dict(data, filter_condition) ==
    IF data[1] = "none" THEN data ELSE NoneVal

\* filter_set: the loop adds to result_data or raises; the function ends
\* without a return statement, so a call that does not raise returns None.
filter_set(data, filter_condition) ==
    IF data[1] = "none" THEN data
    ELSE IF filter_condition[1] # "str" \/ data[1] # "set" THEN TypeError
    ELSE IF \E element \in data[2] :
              ~IsNumber(element) /\ element[1] # "str" /\ element[1] # "none"
         THEN TypeError
         ELSE LET result_data ==
                    {e \in data[2] : IsNumber(e) \/ e[1] = "none"}
                    \cup UNION {{filter_str(e[2], filter_condition)[i] :
                                   i \in DOMAIN filter_str(e[2], filter_condition)}
                                : e \in {y \in data[2] : y[1] = "str"}}
              IN NoneVal

\* result_data.append(x) in place of result_data.extend(x).
list_extend_as_append(result_data, normalized) == Append(result_data, normalized)

\* result_data.extend(filter_list(element, ...))
list_extend(result_data, normalized) == result_data \o normalized[2]

RECURSIVE filter_list(_, _), filter_tuple(_, _)

\* One iteration of filter_list's loop on `element`, result_data being the
\* list so far: the list after it, or TypeError.
filter_list_element(result_data, element, filter_condition) ==
    IF IsNumber(element) THEN List(Append(result_data, element))
    ELSE IF element[1] = "str"
         THEN List(result_data \o filter_str(element[2], filter_condition))
    ELSE IF element[1] = "dict"
         THEN List(Append(result_data, filter_dict(element, filter_condition)))
    ELSE IF element[1] = "list"
         THEN LET r == filter_list(element, filter_condition)
              IN IF Raised(r) THEN TypeError ELSE List(list_extend(result_data, r))
    ELSE IF element[1] = "tuple"
         THEN LET r == filter_tuple(element, filter_condition)
              IN IF Raised(r) THEN TypeError ELSE List(Append(result_data, r))
    ELSE IF element[1] = "set"
         THEN LET r == filter_set(element, filter_condition)
              IN IF Raised(r) THEN TypeError ELSE List(Append(result_data, r))
    ELSE IF element[1] = "none" THEN List(Append(result_data, element))
    ELSE TypeError

filter_list(data, filter_condition) ==
    IF data[1] = "none" THEN data
    ELSE IF filter_condition[1] # "str" \/ data[1] # "list" THEN TypeError
    ELSE LET result_data[i \in 0..Len(data[2])] ==
                 IF i = 0 THEN List(<<>>)
                 ELSE IF Raised(result_data[i - 1]) THEN TypeError
                 ELSE filter_list_element(result_data[i - 1][2], data[2][i],
                                          filter_condition)
         IN result_data[Len(data[2])]

\* One iteration of filter_tuple's loop on `element`, result_data being the
\* tuple so far: the tuple after it, or TypeError.
filter_tuple_element(result_data, element, filter_condition) ==
    IF IsNumber(element) THEN Tuple(result_data \o <<element>>)
    ELSE IF element[1] = "str"
         THEN Tuple(result_data \o filter_str(element[2], filter_condition))
    ELSE IF element[1] = "dict"
         THEN Tuple(result_data \o <<filter_dict(element, filter_condition)>>)
    ELSE IF element[1] = "list"
         THEN LET r == filter_list(element, filter_condition)
              IN IF Raised(r) THEN TypeError ELSE Tuple(result_data \o <<r>>)
    ELSE IF element[1] = "tuple"
         THEN LET r == filter_tuple(element, filter_condition)
              IN IF Raised(r) THEN TypeError ELSE Tuple(result_data \o <<r>>)
    ELSE IF element[1] = "set"
         THEN LET r == filter_set(element, filter_condition)
              IN IF Raised(r) THEN TypeError ELSE Tuple(result_data \o <<r>>)
    ELSE IF element[1] = "none" THEN Tuple(result_data \o <<element>>)
    ELSE TypeError

filter_tuple(data, filter_condition) ==
    IF data[1] = "none" THEN data
    ELSE IF filter_condition[1] # "str" \/ data[1] # "tuple" THEN TypeError
    ELSE LET result_data[i \in 0..Len(data[2])] ==
                 IF i = 0 THEN Tuple(<<>>)
                 ELSE IF Raised(result_data[i - 1]) THEN TypeError
                 ELSE filter_tuple_element(result_data[i - 1][2], data[2][i],
                                           filter_condition)
         IN result_data[Len(data[2])]

\* ------------------------------------------------------------ inputs
\* Sequences over S of length at most n.
SeqsUpTo(S, n) == UNION {[1..m -> S] : m \in 0..n}

\* Ordered mappings with at most n items, keys from K (distinct), values from V.
Mappings(K, V, n) ==
    {s \in SeqsUpTo(K \X V, n) : \A i, j \in DOMAIN s : s[i][1] = s[j][1] => i = j}

\* Variable names.
VarNames == {<<"x">>, <<"y">>, <<"z">>}

\* Local values: the two reference forms of x, two malformed references
\* (case, whitespace) and a number.
LocalValues ==
    {Str(<<"$", "x">>), Str(<<"$", "{", "x", "}">>), Str(<<"$", "X">>),
     Str(<<" ", "$", "x">>), Num(1)}

InheritedValues == {Str(<<"o">>), Num(0)}

\* The two fragments the dimensions are built from; they share the key k.
Fragment1 == Dict(<< <<(<<"a">>), Num(1)>>, <<(<<"k">>), Num(0)>> >>)
Fragment2 == Dict(<< <<(<<"k">>), Num(5)>>, <<(<<"b">>), Num(2)>> >>)

\* Strings that strip().lower() changes: " A " -> "a", "  B" -> "b".
StrA == Str(<<" ", "A", " ">>)
StrB == Str(<<" ", " ", "B">>)

Leaves == {Num(1), Bool(TRUE), NoneVal, Other, StrA, StrB}

\* Nested values: lists in lists (three deep, with both strings), the empty
\* list, a list that holds an unsupported value two deep, tuples with and
\* without nested lists, mappings and sets with and without an offending part.
Nested ==
    {List(<<Num(1), List(<<StrA, List(<<StrB>>)>>)>>),
     List(<<>>),
     List(<<List(<<Other>>)>>),
     Tuple(<<Num(2)>>),
     Tuple(<<StrA, List(<<Num(1), List(<<StrB>>)>>)>>),
     Dict(<< <<(<<"x">>), StrB>> >>),
     Dict(<< <<(<<"x">>), Other>> >>),
     SetOf({Num(1), StrB}),
     SetOf({Num(1), Tuple(<<Num(2)>>)})}

Elements == Leaves \cup Nested

\* What a Python set can hold among Elements: the leaves and the tuple of a number.
Hashable == Leaves \cup {Tuple(<<Num(2)>>)}

DictKeys == {<<"x">>, <<"y">>}

Data ==
    Leaves
    \cup {List(s) : s \in SeqsUpTo(Elements, MaxLen)}
    \cup {Tuple(s) : s \in SeqsUpTo(Elements, MaxLen)}
    \cup {Dict(s) : s \in Mappings(DictKeys, Elements, MaxLen)}
    \cup {SetOf(S) : S \in {T \in SUBSET Hashable : Cardinality(T) <= MaxLen}}

\* filter_condition: a sentinel in normal form, one that is not, and a non-string.
Conditions == {Str(<<"a">>), Str(<<"A">>), Num(0)}

FilterFns == {"filter_dict", "filter_list", "filter_tuple", "filter_set"}

\* Mutable containers are objects of the heap; everything else is passed by value.
IsMutable(x) == x[1] \in {"list", "dict", "set"}

\* ------------------------------------------------------------ state machine
InitMerge ==
    /\ fn = "merge_variables"
    /\ \E local \in Mappings(VarNames, LocalValues, MaxKeys),
          inherited \in Mappings(VarNames, InheritedValues, MaxKeys) :
         heap = <<Dict(local), Dict(inherited)>>
    /\ args = <<Ref(1), Ref(2)>>
    /\ cond = NoneVal

InitExpand ==
    /\ fn = "gen_cartesian_product"
    /\ \E dims \in SeqsUpTo(SeqsUpTo({Ref(1), Ref(2)}, MaxDimLen), MaxDims) :
         /\ heap = <<Fragment1, Fragment2>> \o [i \in DOMAIN dims |-> List(dims[i])]
         /\ args = [i \in DOMAIN dims |-> Ref(2 + i)]
    /\ cond = NoneVal

InitNormalize ==
    /\ fn \in FilterFns
    /\ \E data \in Data :
         /\ heap = IF IsMutable(data) THEN <<data>> ELSE <<>>
         /\ args = IF IsMutable(data) THEN <<Ref(1)>> ELSE <<data>>
    /\ cond \in Conditions

Init ==
    /\ pc = "ready"
    /\ ret = NoneVal
    /\ prev = NoneVal
    /\ (InitMerge \/ InitExpand \/ InitNormalize)
    /\ heap0 = heap

\* A returned value: a new mutable container is a new heap object.
Return(h, r) ==
    IF IsMutable(r) THEN [heap |-> Append(h, r), ret |-> Ref(Len(h) + 1)]
    ELSE [heap |-> h, ret |-> r]

Finish(r) ==
    /\ heap' = r.heap
    /\ ret' = r.ret
    /\ pc' = "done"
    /\ UNCHANGED <<heap0, fn, args, cond, prev>>

call_merge_variables ==
    /\ pc = "ready" /\ fn = "merge_variables"
    /\ Finish(merge_variables(heap, args[1], args[2]))

call_gen_cartesian_product ==
    /\ pc = "ready" /\ fn = "gen_cartesian_product"
    /\ Finish(gen_cartesian_product(heap, args))

call_filter_dict ==
    /\ pc = "ready" /\ fn = "filter_dict"
    /\ Finish(Return(heap, filter_dict(Deref(heap, args[1]), cond)))

call_filter_list ==
    /\ pc = "ready" /\ fn = "filter_list"
    /\ Finish(Return(heap, filter_list(Deref(heap, args[1]), cond)))

call_filter_tuple ==
    /\ pc = "ready" /\ fn = "filter_tuple"
    /\ Finish(Return(heap, filter_tuple(Deref(heap, args[1]), cond)))

call_filter_set ==
    /\ pc = "ready" /\ fn = "filter_set"
    /\ Finish(Return(heap, filter_set(Deref(heap, args[1]), cond)))

\* The entry point for a value of kind k; fn0 for a value that is no container.
EntryFor(x, fn0) ==
    CASE x[1] = "dict" -> "filter_dict"
      [] x[1] = "list" -> "filter_list"
      [] x[1] = "tuple" -> "filter_tuple"
      [] x[1] = "set" -> "filter_set"
      [] OTHER -> fn0

Apply(f, data, filter_condition) ==
    CASE f = "filter_dict" -> filter_dict(data, filter_condition)
      [] f = "filter_list" -> filter_list(data, filter_condition)
      [] f = "filter_tuple" -> filter_tuple(data, filter_condition)
      [] f = "filter_set" -> filter_set(data, filter_condition)

\* The caller normalizes the returned value once more, with the same
\* filter_condition, through the entry point of the returned value's kind.
normalize_again ==
    /\ pc = "done" /\ fn \in FilterFns /\ ~Raised(ret)
    /\ LET data == Deref(heap, ret)
           r == Return(heap, Apply(EntryFor(data, fn), data, cond))
       IN /\ heap' = r.heap
          /\ ret' = r.ret
    /\ prev' = ret
    /\ pc' = "again"
    /\ UNCHANGED <<heap0, fn, args, cond>>

Next ==
    \/ call_merge_variables
    \/ call_gen_cartesian_product
    \/ call_filter_dict
    \/ call_filter_list
    \/ call_filter_tuple
    \/ call_filter_set
    \/ normalize_again

Spec == Init /\ [][Next]_vars

\* ------------------------------------------------------------ claims
\* The i-th argument as the caller passed it.
Input(i) == Deref(heap0, args[i])

\* What the last call returned, as a value.
Output == Deref(heap, ret)

KeySet(items) == {items[i][1] : i \in DOMAIN items}

\* A local item whose value is exactly "$key" or "${key}" for its own key.
SelfReferencing(item) ==
    item[2] \in {Str(<<"$">> \o item[1]), Str(<<"$", "{">> \o item[1] \o <<"}">>)}

\* C2: merge_variables(local, inherited) returns a mapping whose keys are the
\* keys of inherited plus the keys of local whose value is not the string
\* "$key" or "${key}"; each such local key holds the local value, every other
\* key holds the inherited value.  Any other string is a literal that overrides.
C2_MergeKeysAndValues ==
    (pc = "done" /\ fn = "merge_variables") =>
        LET local == Input(1)[2]
            inherited == Input(2)[2]
            out == Output[2]
            kept == {i \in DOMAIN local : ~SelfReferencing(local[i])}
        IN /\ Output[1] = "dict"
           /\ \A i, j \in DOMAIN out : out[i][1] = out[j][1] => i = j
           /\ KeySet(out) = KeySet(inherited) \cup {local[i][1] : i \in kept}
           /\ \A i \in kept : dict_get(out, local[i][1]) = local[i][2]
           /\ \A key \in KeySet(inherited) \ {local[i][1] : i \in kept} :
                dict_get(out, key) = dict_get(inherited, key)

\* A merge where {"x": "${x}"} leaves the inherited x in place while a local
\* key holding the malformed reference " $x" is set to that literal.
C2_Witness ==
    /\ pc = "done" /\ fn = "merge_variables"
    /\ \E i \in DOMAIN Input(1)[2] :
         Input(1)[2][i] = <<(<<"x">>), Str(<<"$", "{", "x", "}">>)>>
    /\ dict_has(Input(2)[2], <<"x">>)
    /\ dict_get(Output[2], <<"x">>) = dict_get(Input(2)[2], <<"x">>)
    /\ \E key \in KeySet(Output[2]) : dict_get(Output[2], key) = Str(<<" ", "$", "x">>)

\* The keys local sets, in local's order.
OverridingKeys(local) == dict_keys(SelectSeq(local, LAMBDA it : ~SelfReferencing(it)))

InSeq(s, e) == \E i \in DOMAIN s : s[i] = e

\* C9 as stated: in the mapping merge_variables returns, the inherited keys
\* that local does not override come first, in inherited order, and every key
\* local overrides or adds comes after them, in local's order.
C9_OverriddenKeysMoveLast ==
    (pc = "done" /\ fn = "merge_variables") =>
        LET over == OverridingKeys(Input(1)[2])
            inh == dict_keys(Input(2)[2])
        IN dict_keys(Output[2])
             = SelectSeq(inh, LAMBDA key : ~InSeq(over, key)) \o over

\* C9 as amended: the returned mapping lists every key of inherited first, in
\* inherited order (an overridden key keeps its inherited position), and after
\* them the keys local adds that inherited lacks, in local's order.
C9_OverriddenKeysKeepPlace ==
    (pc = "done" /\ fn = "merge_variables") =>
        LET over == OverridingKeys(Input(1)[2])
            inh == dict_keys(Input(2)[2])
        IN dict_keys(Output[2])
             = inh \o SelectSeq(over, LAMBDA key : ~InSeq(inh, key))

\* A merge that overrides the first of two inherited keys and adds a new one.
C9_Witness ==
    /\ pc = "done" /\ fn = "merge_variables"
    /\ dict_keys(Input(2)[2]) = << <<"x">>, <<"y">> >>
    /\ dict_keys(Input(1)[2]) = << <<"z">>, <<"x">> >>
    /\ dict_keys(Output[2]) = << <<"x">>, <<"y">>, <<"z">> >>
    /\ dict_get(Output[2], <<"x">>) = Num(1)

\* The dimensions as passed: for each argument, the fragments (references) of its list.
Dims == [d \in DOMAIN args |-> heap0[args[d][2]][2]]

RECURSIVE Product(_)
Product(ns) == IF ns = <<>> THEN 1 ELSE Head(ns) * Product(Tail(ns))

DimLens == [d \in DOMAIN Dims |-> Len(Dims[d])]

\* In nested-loop order with the last dimension fastest, the n-th tuple takes
\* from dimension d the fragment numbered ((n - 1) div stride) mod length, the
\* stride being the product of the later dimensions' lengths.
TupleIndex(n, d) ==
    LET stride == Product(SubSeq(DimLens, d + 1, Len(DimLens)))
    IN (((n - 1) \div stride) % DimLens[d]) + 1

\* items is the left-to-right merge of the mappings frags: it has their keys,
\* each with the value of the last fragment that has the key.
IsMergeOf(items, frags) ==
    /\ \A i, j \in DOMAIN items : items[i][1] = items[j][1] => i = j
    /\ KeySet(items) = UNION {KeySet(frags[d]) : d \in DOMAIN frags}
    /\ \A d \in DOMAIN frags : \A key \in KeySet(frags[d]) :
         (\A e \in DOMAIN frags : e > d => key \notin KeySet(frags[e]))
            => dict_get(items, key) = dict_get(frags[d], key)

\* What C3 says of the returned list, apart from its length with no dimensions.
ExpansionAsClaimed ==
    LET out == Output[2]
    IN /\ Output[1] = "list"
       /\ Len(args) = 0 => out = <<>>
       /\ Len(args) = 1 => ret = args[1]
       /\ Len(args) >= 2 =>
            /\ Len(out) = Product(DimLens)
            /\ \A n \in DOMAIN out :
                 IsMergeOf(heap[out[n][2]][2],
                           [d \in DOMAIN Dims |-> heap0[Dims[d][TupleIndex(n, d)][2]][2]])
       /\ (\E d \in DOMAIN Dims : Dims[d] = <<>>) => Len(out) = 0

\* C3 as stated: gen_cartesian_product returns the empty list for no
\* dimensions, the dimension's own list for one, otherwise one left-to-right
\* merge per tuple of the product in nested-loop order (last dimension
\* fastest); and the output length ALWAYS equals the product of the dimension
\* lengths (which is 1 for no dimensions), being 0 when a dimension is empty.
C3_LengthAlwaysProduct ==
    (pc = "done" /\ fn = "gen_cartesian_product") =>
        /\ ExpansionAsClaimed
        /\ Len(Output[2]) = Product(DimLens)

\* C3 as amended: the same, the output length being the product of the
\* dimension lengths whenever at least one dimension is given (and 0 for none).
C3_LengthProductOfGivenDims ==
    (pc = "done" /\ fn = "gen_cartesian_product") =>
        /\ ExpansionAsClaimed
        /\ Len(args) >= 1 => Len(Output[2]) = Product(DimLens)
        /\ Len(args) = 0 => Len(Output[2]) = 0

\* An expansion of three dimensions of two fragments each, the fragments
\* sharing a key: eight entries.
C3_Witness ==
    /\ pc = "done" /\ fn = "gen_cartesian_product"
    /\ Len(args) = 3
    /\ \A d \in DOMAIN Dims : Dims[d] = <<Ref(1), Ref(2)>>
    /\ Len(Output[2]) = 8
    /\ dict_get(heap[Output[2][3][2]][2], <<"k">>) = Num(0)

KindOf(f) ==
    CASE f = "filter_dict" -> "dict"
      [] f = "filter_list" -> "list"
      [] f = "filter_tuple" -> "tuple"
      [] f = "filter_set" -> "set"

ContainerKinds == {"dict", "list", "tuple", "set"}

\* A string value that equals the sentinel once trimmed and lower-cased.
IsSentinel(x, sentinel) == x[1] = "str" /\ Str(strip_lower(x[2])) = sentinel

\* C1: for a mapping input and a string sentinel, filter_dict returns a
\* mapping with the input's keys minus those whose value is a string equal to
\* the sentinel after trimming and lower-casing; a kept string is trimmed and
\* lower-cased, a number, boolean or null is unchanged, a container value is
\* replaced by its normalization (which has the container's kind).
C1_FilterDictNormalizes ==
    (pc = "done" /\ fn = "filter_dict" /\ Input(1)[1] = "dict" /\ cond[1] = "str") =>
        LET data == Input(1)[2]
            kept == {i \in DOMAIN data : ~IsSentinel(data[i][2], cond)}
        IN \/ ret = TypeError
           \/ /\ Output[1] = "dict"
              /\ KeySet(Output[2]) = {data[i][1] : i \in kept}
              /\ \A i \in kept :
                   LET value == data[i][2]
                       got == dict_get(Output[2], data[i][1])
                   IN CASE value[1] = "str" -> got = Str(strip_lower(value[2]))
                        [] value[1] \in {"num", "bool", "none"} -> got = value
                        [] OTHER -> got[1] = value[1]

\* C4: an entry point called with a non-null argument that is not of its own
\* container kind ends in a type error.
C4_WrongKindRaises ==
    (pc = "done" /\ fn \in FilterFns /\ cond[1] = "str"
       /\ Input(1)[1] # "none" /\ Input(1)[1] # KindOf(fn)) => ret = TypeError

\* A value of an unsupported type, or a set with a container among its elements.
OffendingPart(x) ==
    \/ x[1] = "other"
    \/ x[1] = "set" /\ \E e \in x[2] : e[1] \in ContainerKinds

\* x is, or holds at some depth inside mappings, sequences and tuples, an
\* offending part.
RECURSIVE HoldsOffendingPart(_)
HoldsOffendingPart(x) ==
    \/ OffendingPart(x)
    \/ x[1] \in {"list", "tuple"} /\ \E i \in DOMAIN x[2] : HoldsOffendingPart(x[2][i])
    \/ x[1] = "dict" /\ \E i \in DOMAIN x[2] : HoldsOffendingPart(x[2][i][2])

\* C5: an entry point given a value that holds, at any depth inside mappings,
\* sequences and tuples, a value of an unsupported type or a set with a
\* container element ends in a type error; it returns nothing.  Stated for an
\* argument of the entry point's own kind (C4 is about the other arguments).
C5_OffendingPartRaises ==
    (pc = "done" /\ fn \in FilterFns /\ cond[1] = "str"
       /\ Input(1)[1] = KindOf(fn) /\ HoldsOffendingPart(Input(1))) => ret = TypeError

\* C6: for a tuple input filter_tuple returns a tuple of the same arity whose
\* i-th element is the normalization of the input's i-th element: a string
\* trimmed and lower-cased, a number, boolean or null unchanged, a nested
\* tuple or sequence the nested result of its own entry point, a mapping or
\* set a mapping or set.
C6_TupleArityPreserved ==
    (pc = "done" /\ fn = "filter_tuple" /\ Input(1)[1] = "tuple" /\ cond[1] = "str") =>
        LET data == Input(1)[2]
        IN \/ ret = TypeError
           \/ /\ ret[1] = "tuple"
              /\ Len(ret[2]) = Len(data)
              /\ \A i \in DOMAIN data :
                   CASE data[i][1] = "str" -> ret[2][i] = Str(strip_lower(data[i][2]))
                     [] data[i][1] \in {"num", "bool", "none"} -> ret[2][i] = data[i]
                     [] data[i][1] = "tuple" -> ret[2][i] = filter_tuple(data[i], cond)
                     [] data[i][1] = "list" -> ret[2][i] = filter_list(data[i], cond)
                     [] OTHER -> ret[2][i][1] = data[i][1]

\* The elements of s with every sequence among them replaced, in place, by
\* its own elements, to any depth.
RECURSIVE Flatten(_)
Flatten(s) ==
    IF s = <<>> THEN <<>>
    ELSE IF Head(s)[1] = "list" THEN Flatten(Head(s)[2]) \o Flatten(Tail(s))
    ELSE <<Head(s)>> \o Flatten(Tail(s))

\* C7: for a sequence input filter_list returns a sequence with no sequence
\* as a direct element: nested sequences are replaced in place by their
\* elements to any depth, strings equal to the sentinel once trimmed and
\* lower-cased are omitted, the other elements keep their order (a string
\* trimmed and lower-cased, a tuple, mapping or set as its entry point returns it).
C7_FilterListFlat ==
    (pc = "done" /\ fn = "filter_list" /\ Input(1)[1] = "list" /\ ret # TypeError) =>
        LET flat == SelectSeq(Flatten(Input(1)[2]), LAMBDA e : ~IsSentinel(e, cond))
            out == Output[2]
        IN /\ Output[1] = "list"
           /\ \A i \in DOMAIN out : out[i][1] # "list"
           /\ Len(out) = Len(flat)
           /\ \A i \in DOMAIN out :
                CASE flat[i][1] = "str" -> out[i] = Str(strip_lower(flat[i][2]))
                  [] flat[i][1] \in ContainerKinds ->
                       out[i] = Apply(EntryFor(flat[i], "filter_list"), flat[i], cond)
                  [] OTHER -> out[i] = flat[i]

\* filter_list has returned for a list that holds a list three deep with a
\* sentinel string in it, next to a tuple.
C7_Witness ==
    /\ pc = "done" /\ fn = "filter_list" /\ cond = Str(<<"a">>)
    /\ Input(1) = List(<<List(<<Num(1), List(<<StrA, List(<<StrB>>)>>)>>), Tuple(<<Num(2)>>)>>)
    /\ Output = List(<<Num(1), Str(<<"b">>), Tuple(<<Num(2)>>)>>)

====
